---------------------------- MODULE Spec2Model ----------------------------
(***************************************************************************)
(* Model of tools/ocr/process_messages_ocr.py: the per-page OCR pipeline   *)
(* (credential check, main, process_pdf, process_page_vision).             *)
(*                                                                         *)
(* Text is modelled as sequences of one-character strings, so that         *)
(* substring tests, f-string formatting and file concatenation are         *)
(* computed and not assumed.  Sleeps are recorded in tenths of a second.   *)
(* Each element of Procs is one launch of the script on the same input     *)
(* and destination paths; in Spec the launches happen one after another.   *)
(***************************************************************************)
EXTENDS Integers, Sequences, FiniteSets

(* ------------------------------ bounds --------------------------------- *)
\* largest number of pages of the document
MaxPages == 3
\* number of launches of the script on the same destination
MaxRuns == 2
\* largest page index handed to process_page_vision when it is run on its own
MaxPageNum == 12
\* largest number of pages when the whole script runs against the wider set of service answers
MaxPagesRich == 1
\* largest number of pages when two launches of the script run at the same time
MaxPagesConc == 1
\* largest number of pages when launches may be terminated from outside
MaxPagesKill == 2

\* the longest document of the runs checked for termination
MaxPagesLive == 2

(* ------------------------- program constants --------------------------- *)
max_retries == 3
base_delay == 5
RateLimitDelay == 30
\* time.sleep(0.5), in tenths of a second
PacingDelay == 5

(* ------------------------------ strings -------------------------------- *)
\* Python's None, kept apart from every character sequence
None == <<"None">>

HeaderOpen == <<"<", "!", "-", "-", " ", "S", "o", "u", "r", "c", "e", ":", " ">>
HeaderClose == <<" ", "-", "-", ">", "\n", "\n">>
MarkerOpen == <<"\n", "<", "!", "-", "-", " ", "P", "a", "g", "e", " ">>
MarkerClose == <<" ", "-", "-", ">", "\n">>
FallbackOpen == <<"<", "!", "-", "-", " ", "E", "r", "r", "o", "r", " ", "p", "r", "o", "c", "e", "s", "s", "i", "n", "g", " ", "p", "a", "g", "e", " ">>
FallbackMid == <<":", " ">>
FallbackClose == <<" ", "-", "-", ">">>
Sig429 == <<"4", "2", "9">>
SigExhausted == <<"R", "e", "s", "o", "u", "r", "c", "e", " ", "e", "x", "h", "a", "u", "s", "t", "e", "d">>
Newline == <<"\n">>

\* descriptions str(e) of the exceptions the service call can raise
ErrGeneric == <<"b", "o", "o", "m">>
ErrRate == <<"H", "T", "T", "P", " ", "4", "2", "9">>
ErrQuota == <<"R", "e", "s", "o", "u", "r", "c", "e", " ", "e", "x", "h", "a", "u", "s", "t", "e", "d">>
ErrLower == <<"r", "e", "s", "o", "u", "r", "c", "e", " ", "e", "x", "h", "a", "u", "s", "t", "e", "d">>
ErrNear == <<"4", "2", " ", "9">>
ErrArrow == <<"a", " ", "-", "-", ">", " ", "b">>
\* text the service returns for a page
TextDiv == <<"<", "d", "i", "v", ">", "h", "i", "<", "/", "d", "i", "v", ">">>
\* --file argument, the destination's earlier content, the credential
DocPath == <<"i", "n", "/", "m", ".", "p", "d", "f">>
OldContent == <<"o", "l", "d", "\n">>
KeyValue == <<"k">>

Digit(d) == <<"0", "1", "2", "3", "4", "5", "6", "7", "8", "9">>[d + 1]

RECURSIVE IntToStr(_)
\* str(n) of a natural number, as an f-string field renders it
IntToStr(n) == IF n < 10 THEN <<Digit(n)>> ELSE IntToStr(n \div 10) \o <<Digit(n % 10)>>

\* Python's `sub in s` on strings
Contains(sub, s) == \E k \in 0..(Len(s) - Len(sub)) : SubSeq(s, k + 1, k + Len(sub)) = sub

\* positions of character c in s
Positions(c, s) == {k \in 1..Len(s) : s[k] = c}

Max(S) == CHOOSE m \in S : \A x \in S : x <= m

\* Path(p).name: what follows the last separator
BaseName(path) == IF Positions("/", path) = {} THEN path ELSE SubSeq(path, Max(Positions("/", path)) + 1, Len(path))

\* Path(p).stem: the name without its last suffix (a leading dot starts no suffix)
Stem(path) == LET name == BaseName(path) dots == Positions(".", name) \ {1} IN IF dots = {} THEN name ELSE SubSeq(name, 1, Max(dots) - 1)

\* a truthy Python value among None and strings
Truthy(v) == v # None /\ v # <<>>

\* Python's `a or b`
PyOr(a, b) == IF Truthy(a) THEN a ELSE b

(* --------------------------- pure formatting --------------------------- *)
\* f"<!-- Source: {pdf_name} -->\n\n"
Header(pdf_name) == HeaderOpen \o pdf_name \o HeaderClose

\* the marker numbered with the loop index i instead of page_num = i + 1
PageMarkerZeroBased(page_num) == MarkerOpen \o IntToStr(page_num - 1) \o MarkerClose

\* f"\n<!-- Page {page_num} -->\n"
PageMarker(page_num) == MarkerOpen \o IntToStr(page_num) \o MarkerClose

\* f"<!-- Error processing page {page_num}: {e} -->"
FallbackMarker(page_num, e) == FallbackOpen \o IntToStr(page_num) \o FallbackMid \o e \o FallbackClose

\* "429" in str(e) or "Resource exhausted" in str(e)
IsRateLimit(e) == Contains(Sig429, e) \/ Contains(SigExhausted, e)

\* the rate-limit override left out: every error gets the linear delay
BackoffDelayLinearOnly(attempt, e) == base_delay * (attempt + 1)

\* the linear delay computed from the attempt number itself: base_delay * attempt
BackoffDelayZeroBased(attempt, e) == IF IsRateLimit(e) THEN RateLimitDelay ELSE base_delay * attempt

\* delay = base_delay * (attempt + 1); a rate-limit error overrides it with 30
BackoffDelay(attempt, e) == IF IsRateLimit(e) THEN RateLimitDelay ELSE base_delay * (attempt + 1)

\* the retry test always true: the last failure sleeps too and the loop runs out
RetriesRemainAlways(attempt) == TRUE

\* the bound of the retry test off by one: attempt < max_retries
RetriesRemainOffByOne(attempt) == attempt < max_retries

\* if attempt < max_retries - 1: sleep and go round again
RetriesRemain(attempt) == attempt < max_retries - 1

\* range(max_retries) yields a further value after `attempt`
RangeHasNext(attempt) == attempt + 1 < max_retries

(* ------------------------------- state --------------------------------- *)
VARIABLES file, input_exists, doc, proc

vars == <<file, input_exists, doc, proc>>

Procs == 1..MaxRuns

\* values an environment variable can have: unset, empty, set
EnvValues == {None, <<>>, KeyValue}

\* what the service can do on one call in a whole-program run
SpecTexts == {TextDiv}
SpecErrors == {ErrGeneric, ErrRate}

\* what the service can do when process_page_vision is exercised on its own
AllTexts == {<<>>, TextDiv}
AllErrors == {ErrGeneric, ErrRate, ErrQuota, ErrLower, ErrNear, ErrArrow}

\* a launch is over when the script has ended or the process was terminated from outside
Terminal == {"exited", "killed"}

\* a launch of the script before its first statement
\* Program fields: pc, API_KEY, images, it (the position of enumerate), i, page_num, image,
\* attempt, e, delay, ret (the value process_page_vision returns), page_text, f (the open
\* handle and its buffer), stdout, exit_status.  History fields: calls (service calls of the
\* launch), opened (calls of convert_from_path), sink_ops (opens of the destination), gate
\* (the destination as the existence check saw it), and, for the current loop iteration, page_errs (the
\* errors raised, in order), page_ok (the call returned the service's text), slept (the
\* sleeps, each with its kind and its length in tenths of a second), page_blocked (the answer
\* carried a block reason); results has one entry per page handed back to process_pdf.
Fresh == [pc |-> "idle", API_KEY |-> None, images |-> <<>>, it |-> 0, i |-> 0, page_num |-> 0, image |-> 0, attempt |-> 0, e |-> None, delay |-> 0, ret |-> None, page_text |-> None, f |-> [open |-> FALSE, buf |-> <<>>], stdout |-> {}, exit_status |-> {}, calls |-> 0, slept |-> <<>>, opened |-> 0, sink_ops |-> 0, gate |-> <<>>, page_errs |-> <<>>, page_ok |-> FALSE, page_blocked |-> FALSE, results |-> <<>>]

Absent == [exists |-> FALSE, content |-> <<>>]

Init ==
    /\ file \in {Absent, [exists |-> TRUE, content |-> <<>>], [exists |-> TRUE, content |-> OldContent]}
    /\ input_exists \in BOOLEAN
    /\ doc \in [pages : 0..MaxPages, decodable : BOOLEAN]
    /\ proc = [p \in Procs |-> Fresh]

\* the launches of Spec are sequential: one starts when the earlier ones have ended
CanLaunch(p) == \A q \in Procs : q < p => proc[q].pc \in Terminal

\* sys.exit(status) and the normal end of the script
Exit(r, status) == [r EXCEPT !.pc = "exited", !.exit_status = {status}]

\* print(...): the kinds of message written to standard output
Say(r, kinds) == [r EXCEPT !.stdout = r.stdout \cup kinds]


\* the attempt counter kept from the page before
EnterVisionKeepsAttempt(r, image, page_num) == [r EXCEPT !.image = image, !.page_num = page_num, !.page_errs = <<>>, !.page_ok = FALSE, !.page_blocked = FALSE, !.slept = <<>>, !.pc = "try"]

\* page_num = i + 1; process_page_vision(image, page_num) up to its first attempt = 0
EnterVision(r, image, page_num) == [r EXCEPT !.image = image, !.page_num = page_num, !.attempt = 0, !.page_errs = <<>>, !.page_ok = FALSE, !.page_blocked = FALSE, !.slept = <<>>, !.pc = "try"]

\* one process's step: only its own record changes
Step(p, r) == proc' = [proc EXCEPT ![p] = r]

(* ------------------- module load and main (lines 14-23, 112-127) ------- *)
\* the missing credential reported without sys.exit(1): the script goes on to main
LoadNoExit(r, gemini, google) == LET key == PyOr(gemini, google) IN IF ~Truthy(key) THEN Say([r EXCEPT !.API_KEY = key, !.pc = "main"], {"ERROR_NO_KEY"}) ELSE [r EXCEPT !.API_KEY = key, !.pc = "main"]

\* API_KEY = os.getenv("GEMINI_API_KEY") or os.getenv("GOOGLE_API_KEY"); exit(1) without it
LoadResult(r, gemini, google) == LET key == PyOr(gemini, google) IN IF ~Truthy(key) THEN Exit(Say([r EXCEPT !.API_KEY = key], {"ERROR_NO_KEY"}), 1) ELSE [r EXCEPT !.API_KEY = key, !.pc = "main"]

\* the script is started: lines 14-23 run with the environment of that launch
Launch(p) ==
    /\ proc[p].pc = "idle"
    /\ \E gemini \in EnvValues, google \in EnvValues : Step(p, LoadResult(proc[p], gemini, google))
    /\ UNCHANGED <<file, input_exists, doc>>

\* a launch of the sequential use: the earlier launches are over
Load(p) == CanLaunch(p) /\ Launch(p)

\* the missing input reported with a plain return instead of sys.exit(1)
MainReturns(r, exists) == IF ~exists THEN Exit(Say(r, {"ERROR_INPUT_NOT_FOUND"}), 0) ELSE Say([r EXCEPT !.pc = "gate"], {"INFO_PROCESSING"})

\* if not input_path.exists(): print, sys.exit(1); else print [INFO] and call process_pdf
MainResult(r, exists) == IF ~exists THEN Exit(Say(r, {"ERROR_INPUT_NOT_FOUND"}), 1) ELSE Say([r EXCEPT !.pc = "gate"], {"INFO_PROCESSING"})

Main(p) ==
    /\ proc[p].pc = "main"
    /\ Step(p, MainResult(proc[p], input_exists))
    /\ UNCHANGED <<file, input_exists, doc>>

(* ------------------------ process_pdf (lines 80-110) ------------------- *)
\* the existence check without its return: [SKIP] is printed and the run goes on
GateNoReturn(r, fl) == LET seen == [r EXCEPT !.gate = <<fl>>, !.pc = "convert"] IN IF fl.exists THEN Say(seen, {"SKIP"}) ELSE Say(seen, {"PDF"})

\* if output_path.exists(): print [SKIP], return (main then ends, status 0)
GateResult(r, fl) == LET seen == [r EXCEPT !.gate = <<fl>>] IN IF fl.exists THEN Exit(Say(seen, {"SKIP"}), 0) ELSE Say([seen EXCEPT !.pc = "convert"], {"PDF"})

Gate(p) ==
    /\ proc[p].pc = "gate"
    /\ Step(p, GateResult(proc[p], file))
    /\ UNCHANGED <<file, input_exists, doc>>

\* the conversion error printed and swallowed: the run goes on with no pages
ConvertSwallows(r, d) == LET called == [r EXCEPT !.opened = r.opened + 1] IN IF d.decodable THEN [called EXCEPT !.images = [k \in 1..d.pages |-> k], !.pc = "header"] ELSE Say([called EXCEPT !.pc = "header"], {"ERROR_CONVERT"})

\* images = convert_from_path(...): the whole list of pages, or an exception that is printed and ends process_pdf
ConvertResult(r, d) == LET called == [r EXCEPT !.opened = r.opened + 1] IN IF d.decodable THEN [called EXCEPT !.images = [k \in 1..d.pages |-> k], !.pc = "header"] ELSE Exit(Say(called, {"ERROR_CONVERT"}), 0)

Convert(p) ==
    /\ proc[p].pc = "convert"
    /\ Step(p, ConvertResult(proc[p], doc))
    /\ UNCHANGED <<file, input_exists, doc>>

\* the header opened without truncation: what the file holds is kept
OpenWriteKeeps(fl) == [exists |-> TRUE, content |-> fl.content]

\* open(output_path, "w"): the file is created or truncated
OpenWrite(fl) == [exists |-> TRUE, content |-> <<>>]

\* the page entry opened with mode "w" like the header: the content is dropped
OpenAppendTruncates(fl) == [exists |-> TRUE, content |-> <<>>]

\* open(output_path, "a"): the file is created when missing and its content kept
OpenAppendMode(fl) == [exists |-> TRUE, content |-> fl.content]

\* closing a handle writes its buffered text at the end of the file
Flush(fl, buf) == [exists |-> TRUE, content |-> fl.content \o buf]

OpenHeader(p) ==
    /\ proc[p].pc = "header"
    /\ file' = OpenWrite(file)
    /\ Step(p, [proc[p] EXCEPT !.f = [open |-> TRUE, buf |-> <<>>], !.sink_ops = proc[p].sink_ops + 1, !.pc = "header_write"])
    /\ UNCHANGED <<input_exists, doc>>

\* f.write(f"<!-- Source: {pdf_name} -->\n\n") with pdf_name = Path(pdf_path).stem
WriteHeader(p) ==
    /\ proc[p].pc = "header_write"
    /\ Step(p, [proc[p] EXCEPT !.f.buf = proc[p].f.buf \o Header(Stem(DocPath)), !.pc = "header_close"])
    /\ UNCHANGED <<file, input_exists, doc>>

CloseHeader(p) ==
    /\ proc[p].pc = "header_close"
    /\ file' = Flush(file, proc[p].f.buf)
    /\ Step(p, [proc[p] EXCEPT !.f = [open |-> FALSE, buf |-> <<>>], !.it = 0, !.pc = "loop"])
    /\ UNCHANGED <<input_exists, doc>>

\* the pages taken from the end of the list
ForResultBackwards(r) == IF r.it < Len(r.images) THEN EnterVision([r EXCEPT !.i = r.it, !.it = r.it + 1], r.images[Len(r.images) - r.it], r.it + 1) ELSE Exit(r, 0)

\* for i, image in enumerate(images): the next page, entering process_page_vision, or the end of the run
ForResult(r) == IF r.it < Len(r.images) THEN EnterVision([r EXCEPT !.i = r.it, !.it = r.it + 1], r.images[r.it + 1], r.it + 1) ELSE Exit(r, 0)

ForPage(p) ==
    /\ proc[p].pc = "loop"
    /\ Step(p, ForResult(proc[p]))
    /\ UNCHANGED <<file, input_exists, doc>>

(* -------------------- process_page_vision (lines 28-78) ---------------- *)
\* the last failure raised again instead of turned into a marker: the script ends with status 1
RaisedPropagates(r, e) == LET warned == Say([r EXCEPT !.calls = r.calls + 1, !.e = e, !.page_errs = Append(r.page_errs, e), !.delay = BackoffDelay(r.attempt, e)], {"WARN_ERROR"}) IN IF RetriesRemain(r.attempt) THEN [warned EXCEPT !.pc = "sleep"] ELSE Exit(warned, 1)

\* the service call raises e: warn, choose the delay, then sleep or return the fallback marker
Raised(r, e) == LET warned == Say([r EXCEPT !.calls = r.calls + 1, !.e = e, !.page_errs = Append(r.page_errs, e), !.delay = BackoffDelay(r.attempt, e)], {"WARN_ERROR"} \cup (IF IsRateLimit(e) THEN {"INFO_RATE_LIMIT"} ELSE {})) IN IF RetriesRemain(r.attempt) THEN [warned EXCEPT !.pc = "sleep"] ELSE [warned EXCEPT !.ret = FallbackMarker(r.page_num, e), !.pc = "vision_ret"]

\* an answer followed by a sleep and another attempt while attempts remain
AnsweredKeepsTrying(r, text, blocked) == Say([r EXCEPT !.calls = r.calls + 1, !.page_ok = TRUE, !.page_blocked = blocked, !.ret = text, !.pc = IF RetriesRemain(r.attempt) THEN "sleep" ELSE "vision_ret"], IF blocked THEN {"WARN_BLOCKED"} ELSE {})

\* a block reason treated as a failed attempt
AnsweredBlockRaises(r, text, blocked) == IF blocked THEN Say([Raised(r, ErrGeneric) EXCEPT !.page_blocked = TRUE], {"WARN_BLOCKED"}) ELSE [r EXCEPT !.calls = r.calls + 1, !.page_ok = TRUE, !.ret = text, !.pc = "vision_ret"]

\* the service answers: response.text, with or without a block reason in prompt_feedback
Answered(r, text, blocked) == Say([r EXCEPT !.calls = r.calls + 1, !.page_ok = TRUE, !.page_blocked = blocked, !.ret = text, !.pc = "vision_ret"], IF blocked THEN {"WARN_BLOCKED"} ELSE {})

Try(p, texts, errors) ==
    /\ proc[p].pc = "try"
    /\ \/ \E text \in texts, blocked \in BOOLEAN : Step(p, Answered(proc[p], text, blocked))
       \/ \E e \in errors : Step(p, Raised(proc[p], e))
    /\ UNCHANGED <<file, input_exists, doc>>

\* time.sleep(delay), then the next value of range(max_retries); a range that ends makes the function return None
BackoffResult(r) == LET woke == [r EXCEPT !.slept = Append(r.slept, <<"backoff", 10 * r.delay>>)] IN IF RangeHasNext(r.attempt) THEN [woke EXCEPT !.attempt = r.attempt + 1, !.pc = "try"] ELSE [woke EXCEPT !.ret = None, !.pc = "vision_ret"]

Backoff(p) ==
    /\ proc[p].pc = "sleep"
    /\ Step(p, BackoffResult(proc[p]))
    /\ UNCHANGED <<file, input_exists, doc>>

(* --------------------- appending a page (lines 103-110) ---------------- *)
\* page_text = process_page_vision(...); open(output_path, "a")
OpenAppend(p) ==
    /\ proc[p].pc = "vision_ret"
    /\ file' = OpenAppendMode(file)
    /\ Step(p, [proc[p] EXCEPT !.page_text = proc[p].ret, !.results = Append(proc[p].results, [calls |-> Len(proc[p].page_errs) + (IF proc[p].page_ok THEN 1 ELSE 0), ok |-> proc[p].page_ok]), !.f = [open |-> TRUE, buf |-> <<>>], !.sink_ops = proc[p].sink_ops + 1, !.pc = "write_marker"])
    /\ UNCHANGED <<input_exists, doc>>

\* f.write(f"\n<!-- Page {page_num} -->\n")
WriteMarker(p) ==
    /\ proc[p].pc = "write_marker"
    /\ Step(p, [proc[p] EXCEPT !.f.buf = proc[p].f.buf \o PageMarker(proc[p].page_num), !.pc = "write_text"])
    /\ UNCHANGED <<file, input_exists, doc>>

\* f.write(page_text + "\n"); None + "\n" is a TypeError that ends the script with status 1
TextResult(r) == IF r.page_text = None THEN Exit(r, 1) ELSE [r EXCEPT !.f.buf = r.f.buf \o r.page_text \o Newline, !.pc = "append_close"]

WriteText(p) ==
    /\ proc[p].pc = "write_text"
    /\ Step(p, TextResult(proc[p]))
    /\ UNCHANGED <<file, input_exists, doc>>

CloseAppend(p) ==
    /\ proc[p].pc = "append_close"
    /\ file' = Flush(file, proc[p].f.buf)
    /\ Step(p, [proc[p] EXCEPT !.f = [open |-> FALSE, buf |-> <<>>], !.pc = "pace"])
    /\ UNCHANGED <<input_exists, doc>>

\* the loop going on to the next page without the pacing sleep
PaceSkipped(r) == [r EXCEPT !.pc = "loop"]

\* time.sleep(0.5)
PaceResult(r) == [r EXCEPT !.slept = Append(r.slept, <<"pace", PacingDelay>>), !.pc = "loop"]

Pace(p) ==
    /\ proc[p].pc = "pace"
    /\ Step(p, PaceResult(proc[p]))
    /\ UNCHANGED <<file, input_exists, doc>>

(* ------------------------ external termination ------------------------- *)
\* the destination after a launch is terminated: text buffered in an open handle reaches
\* the file when the interpreter unwinds the with block (an interrupt) and is lost when
\* the process is killed outright
AfterTermination(fl, f, unwinds) == IF f.open /\ unwinds THEN Flush(fl, f.buf) ELSE fl

\* the process of a running launch is terminated from outside
Terminate(p) ==
    /\ proc[p].pc \notin {"idle", "exited", "killed"}
    /\ \E unwinds \in BOOLEAN : file' = AfterTermination(file, proc[p].f, unwinds)
    /\ Step(p, [proc[p] EXCEPT !.f = [open |-> FALSE, buf |-> <<>>], !.pc = "killed"])
    /\ UNCHANGED <<input_exists, doc>>

(* --------------------------- specifications ---------------------------- *)
Next ==
    \E p \in Procs :
        \/ Load(p)
        \/ Main(p)
        \/ Gate(p)
        \/ Convert(p)
        \/ OpenHeader(p)
        \/ WriteHeader(p)
        \/ CloseHeader(p)
        \/ ForPage(p)
        \/ Try(p, SpecTexts, SpecErrors)
        \/ Backoff(p)
        \/ OpenAppend(p)
        \/ WriteMarker(p)
        \/ WriteText(p)
        \/ CloseAppend(p)
        \/ Pace(p)

Spec == Init /\ [][Next]_vars

\* process_page_vision called on its own, with any page index and the wider set of
\* service answers and errors
InitVision ==
    /\ file = Absent
    /\ input_exists = TRUE
    /\ doc = [pages |-> 0, decodable |-> TRUE]
    /\ \E page_num \in 1..MaxPageNum : proc = [p \in Procs |-> IF p = 1 THEN EnterVision([Fresh EXCEPT !.API_KEY = KeyValue], page_num, page_num) ELSE Fresh]

NextVision == Try(1, AllTexts, AllErrors) \/ Backoff(1)

SpecVision == InitVision /\ [][NextVision]_vars

\* the whole script on a short document, with the wider set of service answers and errors
InitRich == Init /\ doc.pages <= MaxPagesRich

NextRich ==
    \E p \in Procs :
        \/ Load(p)
        \/ Main(p)
        \/ Gate(p)
        \/ Convert(p)
        \/ OpenHeader(p)
        \/ WriteHeader(p)
        \/ CloseHeader(p)
        \/ ForPage(p)
        \/ Try(p, AllTexts, AllErrors)
        \/ Backoff(p)
        \/ OpenAppend(p)
        \/ WriteMarker(p)
        \/ WriteText(p)
        \/ CloseAppend(p)
        \/ Pace(p)

SpecRich == InitRich /\ [][NextRich]_vars

\* the sequential launches, each of which may be terminated from outside at any point
NextKill == Next \/ \E p \in Procs : Terminate(p)

InitKill == Init /\ doc.pages <= MaxPagesKill

SpecKill == InitKill /\ [][NextKill]_vars

\* two launches on the same absent destination with nothing ordering them; the service
\* answers every call
InitConc == Init /\ file = Absent /\ input_exists /\ doc.decodable /\ doc.pages <= MaxPagesConc

\* the two launches that run at the same time
ConcProcs == {1, 2}

NextConc ==
    \E p \in ConcProcs :
        \/ Launch(p)
        \/ Main(p)
        \/ Gate(p)
        \/ Convert(p)
        \/ OpenHeader(p)
        \/ WriteHeader(p)
        \/ CloseHeader(p)
        \/ ForPage(p)
        \/ Try(p, SpecTexts, {})
        \/ OpenAppend(p)
        \/ WriteMarker(p)
        \/ WriteText(p)
        \/ CloseAppend(p)
        \/ Pace(p)

SpecConc == InitConc /\ [][NextConc]_vars

\* the steps of a launched script: the interpreter runs it on, every call it makes
\* returns or raises, and every sleep ends
Run(p) == Main(p) \/ Gate(p) \/ Convert(p) \/ OpenHeader(p) \/ WriteHeader(p) \/ CloseHeader(p) \/ ForPage(p) \/ Try(p, SpecTexts, SpecErrors) \/ Backoff(p) \/ OpenAppend(p) \/ WriteMarker(p) \/ WriteText(p) \/ CloseAppend(p) \/ Pace(p)

\* the sequential launches, none terminated from outside and each running on once launched
InitLive == Init /\ doc.pages <= MaxPagesLive

SpecLive == InitLive /\ [][Next]_vars /\ \A p \in Procs : WF_vars(Run(p))

(* ------------------------- reading the artifact ------------------------ *)
\* the start of a page marker line, and the delimiters of a comment
MarkerStart == <<"<", "!", "-", "-", " ", "P", "a", "g", "e", " ">>
CommentEnd == <<"-", "-", ">">>
CommentStart == <<"<", "!", "-", "-">>

\* the positions at which sub occurs in s
FindAll(sub, s) == {k \in 1..(Len(s) - Len(sub) + 1) : SubSeq(s, k, k + Len(sub) - 1) = sub}

RECURSIVE SortedSeq(_)
\* the elements of a finite set of numbers, in increasing order
SortedSeq(S) == IF S = {} THEN <<>> ELSE LET m == CHOOSE x \in S : \A y \in S : x <= y IN <<m>> \o SortedSeq(S \ {m})

\* the positions of the page markers of an artifact, in file order
MarkerStarts(content) == SortedSeq(FindAll(MarkerStart, content))

\* the j-th page entry of an artifact: from its marker up to the line break that opens the next marker
Entry(content, j) == LET at == MarkerStarts(content) IN SubSeq(content, at[j], IF j < Len(at) THEN at[j + 1] - 2 ELSE Len(content))

\* the entry the artifact format prescribes for page j with result res
EntryFor(j, res) == MarkerStart \o IntToStr(j) \o <<" ", "-", "-", ">", "\n">> \o res \o <<"\n">>

\* the fallback comment the artifact format prescribes for page j and error description e
FallbackFor(j, e) == <<"<", "!", "-", "-", " ", "E", "r", "r", "o", "r", " ", "p", "r", "o", "c", "e", "s", "s", "i", "n", "g", " ", "p", "a", "g", "e", " ">> \o IntToStr(j) \o <<":", " ">> \o e \o <<" ", "-", "-", ">">>

\* the launch p went through the whole page source and ended
RanToEnd(p) == proc[p].pc = "exited" /\ proc[p].opened = 1 /\ doc.decodable

\* the launch p found the destination when process_pdf checked for it
SawDestination(p) == proc[p].gate # <<>> /\ proc[p].gate[1].exists

\* the launch p found no destination when process_pdf checked for it
SawNoDestination(p) == proc[p].gate # <<>> /\ ~proc[p].gate[1].exists

(* ------------------------------- claims -------------------------------- *)
\* C1: a run on an absent destination that goes through the whole page source of an
\* N-page document leaves an artifact with exactly N page markers, numbered 1..N in
\* file order, each followed by one result: the service's text or the fallback
\* comment of that page.
C1_PageMarkers == \A p \in Procs : RanToEnd(p) => (Len(MarkerStarts(file.content)) = doc.pages /\ \A j \in 1..doc.pages : \E res \in SpecTexts \cup {FallbackFor(j, e) : e \in SpecErrors} : Entry(file.content, j) = EntryFor(j, res))

\* a finished run of a document of MaxPages pages with a fallback page and a successful page
C1_Witness == \E p \in Procs : RanToEnd(p) /\ doc.pages = MaxPages /\ Len(proc[p].results) = MaxPages /\ ~proc[p].results[1].ok /\ proc[p].results[2].ok

\* C2: when the destination exists as process_pdf is called, the run ends without
\* calling convert_from_path, without calling the service and without opening the
\* destination, and the artifact is what it was.
C2_SkipLeavesAll == \A p \in Procs : (proc[p].pc = "exited" /\ SawDestination(p)) => (proc[p].opened = 0 /\ proc[p].calls = 0 /\ proc[p].sink_ops = 0 /\ file = proc[p].gate[1])

\* a skipped run on a destination that held text before the first launch
C2_Witness == \E p \in Procs : proc[p].pc = "exited" /\ SawDestination(p) /\ proc[p].gate[1].content = OldContent /\ "SKIP" \in proc[p].stdout

\* C3: once a launch whose process_pdf found no destination has ended, no step of
\* another launch changes the artifact, calls the service or opens the destination:
\* the second invocation is a no-op on what the first one left.
C3_SecondRunNoOp == [][\A p \in Procs : (proc[p].pc = "exited" /\ SawNoDestination(p)) => (file' = file /\ \A q \in Procs \ {p} : proc'[q].calls = 0 /\ proc'[q].sink_ops = 0)]_vars

\* the first launch wrote pages after service calls and the second one was skipped
C3_Witness == proc[1].pc = "exited" /\ SawNoDestination(1) /\ proc[1].calls > 0 /\ Len(proc[1].results) = MaxPages /\ proc[2].pc = "exited" /\ SawDestination(2) /\ proc[2].calls = 0 /\ file = proc[2].gate[1]

\* C4: process_page_vision never calls the service more than 3 times for a page; when
\* every attempt fails it returns right after the third call, with the fallback
\* comment of that page, and is not waiting for or making a further attempt.
C4_ThreeAttempts == LET r == proc[1] IN r.calls <= 3 /\ Len(r.page_errs) <= 3 /\ ((r.pc = "vision_ret" /\ ~r.page_ok) => (r.calls = 3 /\ Len(r.page_errs) = 3 /\ r.ret = FallbackFor(r.page_num, r.page_errs[3]))) /\ (Len(r.page_errs) = 3 => r.pc = "vision_ret")

\* a page whose three attempts all failed
C4_Witness == proc[1].pc = "vision_ret" /\ ~proc[1].page_ok /\ proc[1].calls = 3 /\ Len(proc[1].slept) = 2

\* C5: process_page_vision always hands a string back (the service's text or the
\* page's fallback comment), a launch that reached process_pdf never ends with a
\* failure status, and a run that ended after opening the page source has handled
\* every page, the artifact holding the fallback comment of each page whose
\* attempts were exhausted.
C5_PageFailureAbsorbed == \A p \in Procs : LET r == proc[p] IN (r.pc = "vision_ret" => (r.ret # None /\ (r.page_ok \/ r.ret = FallbackFor(r.page_num, r.page_errs[Len(r.page_errs)])))) /\ ((r.pc = "exited" /\ r.gate # <<>>) => r.exit_status = {0}) /\ (RanToEnd(p) => (Len(r.results) = doc.pages /\ \A j \in 1..Len(r.results) : ~r.results[j].ok => \E e \in SpecErrors : Entry(file.content, j) = EntryFor(j, FallbackFor(j, e))))

\* a finished run whose first page was exhausted and whose later pages were still handled
C5_Witness == \E p \in Procs : RanToEnd(p) /\ doc.pages = MaxPages /\ Len(proc[p].results) = MaxPages /\ ~proc[p].results[1].ok /\ proc[p].results[MaxPages].ok /\ proc[p].exit_status = {0}

\* the error description carries one of the two rate-limit signals
HasRateLimitSignal(e) == Contains(<<"4", "2", "9">>, e) \/ Contains(<<"R", "e", "s", "o", "u", "r", "c", "e", " ", "e", "x", "h", "a", "u", "s", "t", "e", "d">>, e)

\* the lengths, in tenths of a second, of the backoff sleeps of the current page, in order
BackoffDelays(r) == LET b == SelectSeq(r.slept, LAMBDA x : x[1] = "backoff") IN [k \in 1..Len(b) |-> b[k][2]]

\* C6: the sleep that follows a failure whose description carries a rate-limit signal
\* lasts 30 s whatever the attempt, the first included; a finished run of a 1-page
\* document whose three attempts all raised rate-limit errors made exactly 3 service
\* calls and exactly two backoff sleeps of 30 s, and its artifact holds page 1's
\* fallback comment with the last error.
C6_RateLimitDelay == \A p \in Procs : LET r == proc[p] IN (\A k \in 1..Len(BackoffDelays(r)) : HasRateLimitSignal(r.page_errs[k]) => BackoffDelays(r)[k] = 10 * 30) /\ ((r.pc = "sleep" /\ HasRateLimitSignal(r.e)) => r.delay = 30) /\ ((RanToEnd(p) /\ doc.pages = 1 /\ ~r.page_ok /\ \A k \in 1..Len(r.page_errs) : HasRateLimitSignal(r.page_errs[k])) => (r.calls = 3 /\ BackoffDelays(r) = <<10 * 30, 10 * 30>> /\ Len(MarkerStarts(file.content)) = 1 /\ Entry(file.content, 1) = EntryFor(1, FallbackFor(1, r.page_errs[3]))))

\* a finished 1-page run whose three attempts raised rate-limit errors of both kinds
C6_Witness == \E p \in Procs : RanToEnd(p) /\ doc.pages = 1 /\ ~proc[p].page_ok /\ proc[p].page_errs = <<ErrRate, ErrQuota, ErrRate>> /\ Len(proc[p].slept) = 3

\* C7: the sleep that follows the k-th failed attempt of a page (attempt number k - 1),
\* when its error carries no rate-limit signal, lasts 5 * ((k - 1) + 1) s; page 2
\* succeeding after two such failures has slept 5 s then 10 s and returns the
\* service's text; a finished 3-page run in which pages 1 and 3 succeeded at once
\* and page 2 on its third attempt holds the service's text for pages 1, 2 and 3.
C7_LinearDelay == \A p \in Procs : LET r == proc[p] IN (\A k \in 1..Len(BackoffDelays(r)) : ~HasRateLimitSignal(r.page_errs[k]) => BackoffDelays(r)[k] = 10 * 5 * ((k - 1) + 1)) /\ ((r.pc = "vision_ret" /\ r.page_num = 2 /\ r.page_ok /\ Len(r.page_errs) = 2 /\ \A k \in 1..2 : ~HasRateLimitSignal(r.page_errs[k])) => (BackoffDelays(r) = <<50, 100>> /\ r.ret \in SpecTexts)) /\ ((RanToEnd(p) /\ doc.pages = 3 /\ r.results = <<[calls |-> 1, ok |-> TRUE], [calls |-> 3, ok |-> TRUE], [calls |-> 1, ok |-> TRUE]>>) => (Len(MarkerStarts(file.content)) = 3 /\ \A j \in 1..3 : \E t \in SpecTexts : Entry(file.content, j) = EntryFor(j, t)))

\* a finished 3-page run whose page 2 succeeded on its third attempt, the others at once
C7_Witness == \E p \in Procs : RanToEnd(p) /\ doc.pages = 3 /\ proc[p].results = <<[calls |-> 1, ok |-> TRUE], [calls |-> 3, ok |-> TRUE], [calls |-> 1, ok |-> TRUE]>>

\* s is one comment: it opens with <!-- and its only --> is at its end
IsSingleComment(s) == Len(s) >= 7 /\ SubSeq(s, 1, 4) = CommentStart /\ FindAll(CommentEnd, s) = {Len(s) - 2}

\* C8: on retry exhaustion the string process_page_vision returns holds the index of
\* the page and the description of the third attempt's error, and is one comment
\* whatever the description is.
C8_FallbackIsComment == LET r == proc[1] IN (r.pc = "vision_ret" /\ ~r.page_ok) => (r.ret = FallbackFor(r.page_num, r.page_errs[3]) /\ IsSingleComment(r.ret))

\* a launch p ended by each fatal error of the taxonomy
NoCredential(p) == proc[p].pc = "exited" /\ ~Truthy(proc[p].API_KEY)
NoInput(p) == proc[p].pc = "exited" /\ Truthy(proc[p].API_KEY) /\ ~input_exists
DecodeFailed(p) == proc[p].pc = "exited" /\ proc[p].opened = 1 /\ ~doc.decodable

\* C9: a run ended by a page source that cannot decode the document has not opened
\* the destination and has not called the service, the destination does not exist,
\* and the existence check of every later launch finds nothing and does not skip.
C9_DecodeFailureLeavesNothing == \A p \in Procs : DecodeFailed(p) => (proc[p].sink_ops = 0 /\ proc[p].calls = 0 /\ ~file.exists /\ \A q \in Procs : (q > p /\ proc[q].gate # <<>>) => (SawNoDestination(q) /\ "SKIP" \notin proc[q].stdout))

\* a decode failure followed by a launch that passed the existence check
C9_Witness == DecodeFailed(1) /\ "ERROR_CONVERT" \in proc[1].stdout /\ proc[2].pc = "convert" /\ SawNoDestination(2)

\* C10 as stated: each fatal error (no credential, no input file, undecodable document)
\* ends the launch with a diagnostic message and a nonzero exit status.
C10_FatalNonzero == \A p \in Procs : (NoCredential(p) \/ NoInput(p) \/ DecodeFailed(p)) => (proc[p].stdout \cap {"ERROR_NO_KEY", "ERROR_INPUT_NOT_FOUND", "ERROR_CONVERT"} # {} /\ 0 \notin proc[p].exit_status)

\* C10 amended: each fatal error prints its diagnostic message; a missing credential
\* and a missing input file end the launch with status 1, an undecodable document
\* makes process_pdf return and the launch ends with status 0.
C10_FatalDiagnostics == \A p \in Procs : (NoCredential(p) => ("ERROR_NO_KEY" \in proc[p].stdout /\ proc[p].exit_status = {1})) /\ (NoInput(p) => ("ERROR_INPUT_NOT_FOUND" \in proc[p].stdout /\ proc[p].exit_status = {1})) /\ (DecodeFailed(p) => ("ERROR_CONVERT" \in proc[p].stdout /\ proc[p].exit_status = {0}))

\* one launch ended by a missing credential, the next by an undecodable document
C10_Witness == NoCredential(1) /\ proc[1].exit_status = {1} /\ DecodeFailed(2) /\ proc[2].exit_status = {0}

\* C11: a launch without credential or without input file ends with status 1 before
\* the existence check, with no call of convert_from_path or of the service and no
\* open of the destination; every other launch that ends, a skipped one included,
\* ends with status 0.
C11_EarlyExit == \A p \in Procs : proc[p].pc = "exited" => IF NoCredential(p) \/ NoInput(p) THEN (proc[p].exit_status = {1} /\ proc[p].gate = <<>> /\ proc[p].opened = 0 /\ proc[p].calls = 0 /\ proc[p].sink_ops = 0) ELSE proc[p].exit_status = {0}

\* a launch ended by the missing credential, then a skipped launch ended with status 0
C11_Witness == NoCredential(1) /\ proc[1].exit_status = {1} /\ proc[2].pc = "exited" /\ SawDestination(2) /\ proc[2].exit_status = {0}

\* a is a prefix of b
IsPrefix(a, b) == Len(a) <= Len(b) /\ SubSeq(b, 1, Len(a)) = a

\* the start of the header line, and the header line of the document in/m.pdf
HeaderStart == <<"<", "!", "-", "-", " ", "S", "o", "u", "r", "c", "e", ":", " ">>
HeaderLine == HeaderStart \o <<"m", " ", "-", "-", ">", "\n", "\n">>

\* C12: every step leaves the artifact's earlier content as a prefix of its later
\* content and removes no artifact, and once a launch has written its header the
\* artifact begins with the header line and holds no second one.
C12_AppendOnly == [][IsPrefix(file.content, file'.content) /\ (file.exists => file'.exists) /\ \A p \in Procs : (proc'[p].sink_ops > 0 /\ proc'[p].pc \notin {"header_write", "header_close"}) => (IsPrefix(HeaderLine, file'.content) /\ FindAll(HeaderStart, file'.content) = {1})]_vars

\* the second page's entry has been appended after the first
C12_Witness == \E p \in Procs : proc[p].pc = "pace" /\ proc[p].page_num = 2 /\ Len(MarkerStarts(file.content)) = 2

\* content is the header line followed by whole page entries numbered 1..k
HeaderThenEntries(content) == LET at == MarkerStarts(content) IN IF at = <<>> THEN content = HeaderLine ELSE (IsPrefix(HeaderLine, content) /\ at[1] = Len(HeaderLine) + 2 /\ \A j \in 1..Len(at) : \E res \in AllTexts \cup {FallbackFor(j, e) : e \in SpecErrors} : Entry(content, j) = EntryFor(j, res))

\* C13: when a launch that found no destination has been terminated, the artifact, if
\* it exists, is the header followed by whole page entries 1..k: no marker without
\* its result.
C13_TerminationKeepsEntriesWhole == \A p \in Procs : (proc[p].pc = "killed" /\ SawNoDestination(p) /\ file.exists) => HeaderThenEntries(file.content)

\* C14: at every point of a run at most one page image is held.
C14_OneImageAtATime == \A p \in Procs : Len(proc[p].images) <= 1

\* the sleeps of r's current page are its backoffs, one per failure that was followed by
\* another attempt and none shorter than 5 s, then one pacing sleep of 0.5 s
PacedOnce(r) == r.slept # <<>> /\ r.slept[Len(r.slept)] = <<"pace", 5>> /\ Len(SelectSeq(r.slept, LAMBDA x : x[1] = "pace")) = 1 /\ Len(BackoffDelays(r)) = Len(r.page_errs) - (IF r.page_ok THEN 0 ELSE 1) /\ \A k \in 1..Len(BackoffDelays(r)) : BackoffDelays(r)[k] >= 50

\* C15: a launch leaves a page for the next one (or for the end of the loop) only
\* after that page's entry is in the artifact and exactly one sleep of 0.5 s has
\* followed the page's backoff sleeps, whether the page succeeded or not.
C15_PacingDelay == [][\A p \in Procs : ((proc'[p].page_num # proc[p].page_num \/ (proc[p].pc # "exited" /\ proc'[p].pc = "exited")) /\ proc[p].page_num >= 1) => (proc[p].pc = "loop" /\ Len(proc[p].results) = proc[p].page_num /\ Len(MarkerStarts(file.content)) = proc[p].page_num /\ PacedOnce(proc[p]))]_vars

\* page 1 of a longer document ended in the fallback marker after two backoffs, and the
\* pacing sleep has elapsed
C15_Witness == \E p \in Procs : proc[p].pc = "loop" /\ proc[p].page_num = 1 /\ doc.pages >= 2 /\ ~proc[p].page_ok /\ Len(proc[p].slept) = 3 /\ proc[p].slept[3] = <<"pace", 5>>

\* r is inside process_page_vision
InVision(r) == r.pc \in {"try", "sleep", "vision_ret"}

\* C16: the page source is opened only after the existence check found nothing; the
\* header write is the first operation on the destination, comes after the page source
\* and creates the file; no service call precedes the header; and while page k is being
\* attempted the pages 1..k-1, and only they, have been appended, page k being the k-th
\* page of the source.
C16_EventOrder == \A p \in Procs : LET r == proc[p] IN /\ (r.opened > 0 => SawNoDestination(p)) /\ (r.sink_ops > 0 => (r.opened = 1 /\ file.exists)) /\ ((r.sink_ops = 0 /\ r.opened > 0 /\ r.pc # "exited") => ~file.exists) /\ (r.pc \in {"header_write", "header_close"} => (r.sink_ops = 1 /\ r.calls = 0)) /\ (r.calls > 0 => (r.sink_ops >= 1 /\ IsPrefix(HeaderLine, file.content))) /\ (InVision(r) => (r.image = r.page_num /\ r.sink_ops = r.page_num /\ Len(r.results) = r.page_num - 1 /\ Len(MarkerStarts(file.content)) = r.page_num - 1 /\ \A j \in 1..Len(r.results) : r.results[j].calls >= 1))

\* the second attempt of page 2, page 1 alone being in the artifact
C16_Witness == \E p \in Procs : proc[p].pc = "try" /\ proc[p].page_num = 2 /\ proc[p].attempt = 1 /\ Len(MarkerStarts(file.content)) = 1

\* C17: once an attempt of process_page_vision has succeeded the function has returned
\* that attempt's text, every earlier attempt failed and was followed by one backoff,
\* and no sleep follows the success: the calls number the failures plus one, at most 3;
\* a return without a success comes after exactly 3 calls.
C17_SuccessReturnsAtOnce == LET r == proc[1] IN /\ (r.page_ok => (r.pc = "vision_ret" /\ r.ret \in AllTexts /\ r.calls = Len(r.page_errs) + 1 /\ r.calls <= 3 /\ Len(r.slept) = Len(r.page_errs))) /\ ((r.pc = "vision_ret" /\ ~r.page_ok) => r.calls = 3) /\ (r.pc \in {"try", "sleep"} => ~r.page_ok)

\* the first attempt failed and the second succeeded: two calls and one backoff
C17_Witness == proc[1].pc = "vision_ret" /\ proc[1].page_ok /\ proc[1].calls = 2 /\ Len(proc[1].page_errs) = 1 /\ Len(proc[1].slept) = 1

\* C18: an answer carrying a block reason prints the warning and is the page's result:
\* the attempt counts as the success, no retry and no fallback marker follow, and the
\* answer's text, empty or not, is what the page's entry in the artifact holds.
C18_BlockIsWarning == \A p \in Procs : LET r == proc[p] IN r.page_blocked => (r.page_ok /\ "WARN_BLOCKED" \in r.stdout /\ r.pc \notin {"try", "sleep"} /\ r.ret \in AllTexts /\ Len(BackoffDelays(r)) = Len(r.page_errs) /\ (r.pc \in {"pace", "loop", "exited"} => Entry(file.content, r.page_num) = EntryFor(r.page_num, r.ret)))

\* a blocked answer with empty text on the first attempt, appended as page 1's entry
C18_Witness == \E p \in Procs : proc[p].pc = "exited" /\ proc[p].page_blocked /\ proc[p].ret = <<>> /\ proc[p].calls = 1 /\ Entry(file.content, 1) = EntryFor(1, <<>>)

\* C19: once a launch has been terminated after its header open, no step changes the
\* artifact, and every later launch that reaches the existence check finds the artifact,
\* prints the skip line and ends without opening the page source, calling the service or
\* opening the destination.
C19_InterruptedRunIsFinal == [][\A p \in Procs : (proc[p].pc = "killed" /\ proc[p].sink_ops >= 1) => (file' = file /\ \A q \in Procs : q > p => (proc'[q].calls = 0 /\ proc'[q].opened = 0 /\ proc'[q].sink_ops = 0 /\ (proc'[q].gate # <<>> => (proc'[q].gate[1] = file /\ proc'[q].pc = "exited" /\ "SKIP" \in proc'[q].stdout))))]_vars

\* the first launch was terminated with page 1 of 2 appended; the second was skipped and
\* the artifact still holds the header and page 1 alone
C19_Witness == proc[1].pc = "killed" /\ doc.pages = 2 /\ Len(proc[1].results) = 1 /\ proc[2].pc = "exited" /\ SawDestination(2) /\ proc[2].calls = 0 /\ IsPrefix(HeaderLine, file.content) /\ Len(MarkerStarts(file.content)) = 1

\* C20: nothing coordinates two concurrent invocations: the existence check lets a
\* launch through whenever the file is absent at that instant, whatever the other launch
\* is doing, and a launch's header open leaves the file empty whatever the other launch
\* had written.
C20_NoCoordination == [][\A p \in ConcProcs : /\ ((proc[p].pc = "gate" /\ proc'[p].pc # "gate" /\ ~file.exists) => proc'[p].pc = "convert") /\ ((proc[p].pc = "header" /\ proc'[p].pc = "header_write") => (file'.exists /\ file'.content = <<>>))]_vars

\* both launches found no destination and both called the service for page 1; launch 1
\* appended page 1 and ended, and launch 2's header open has discarded it
C20_Witness == SawNoDestination(1) /\ SawNoDestination(2) /\ proc[1].pc = "exited" /\ Len(proc[1].results) = 1 /\ proc[1].calls = 1 /\ proc[2].pc = "vision_ret" /\ proc[2].page_num = 1 /\ proc[2].calls = 1 /\ file.content = HeaderLine

\* r has ended normally: if it wrote the header, with status 0, one result for every
\* page of the source and at most 3 service calls for each
EndedNormally(r) == r.pc = "exited" /\ (r.sink_ops >= 1 => (r.exit_status = {0} /\ Len(r.results) = doc.pages /\ \A j \in 1..Len(r.results) : r.results[j].calls <= 3))

\* C21: every launched run that is not terminated from outside ends, whatever the
\* service answers; a run that wrote the header ends with status 0 after the last page,
\* with no more than 3 service calls for any page.
C21_RunTerminates == \A p \in Procs : (proc[p].pc # "idle") ~> EndedNormally(proc[p])

\* a run over the longest document whose pages all exhausted their 3 attempts has ended
\* with status 0
C21_Witness == \E p \in Procs : proc[p].pc = "exited" /\ proc[p].exit_status = {0} /\ doc.pages = MaxPagesLive /\ Len(proc[p].results) = MaxPagesLive /\ \A j \in 1..MaxPagesLive : (~proc[p].results[j].ok /\ proc[p].results[j].calls = 3)

\* the sum of a sequence of numbers
RECURSIVE SumSeq(_)
SumSeq(q) == IF q = <<>> THEN 0 ELSE q[1] + SumSeq(Tail(q))

\* the backoff slept so far for r's page, in tenths of a second, and the failures of the
\* page that carried a rate-limit signal and were followed by a sleep
TotalBackoff(r) == SumSeq(BackoffDelays(r))
RateLimitedSleeps(r) == Cardinality({k \in 1..Len(BackoffDelays(r)) : HasRateLimitSignal(r.page_errs[k])})

\* C22 as stated: the backoff slept for one page never exceeds 2*5 s + 30 s = 40 s.
C22_BackoffCeiling40 == TotalBackoff(proc[1]) <= 400

\* C22, amended: the backoff slept for one page never exceeds 60 s; it is 60 s exactly
\* when the first two attempts both failed with a rate-limit signal, at most 40 s when
\* one of them did, and at most 15 s when neither did.
C22_BackoffCeiling == LET r == proc[1] IN /\ Len(BackoffDelays(r)) <= 2 /\ TotalBackoff(r) <= 600 /\ (RateLimitedSleeps(r) = 2 => TotalBackoff(r) = 600) /\ (RateLimitedSleeps(r) = 1 => TotalBackoff(r) <= 400) /\ (RateLimitedSleeps(r) = 0 => TotalBackoff(r) <= 150)

\* all 3 attempts failed, the first two with a rate-limit signal: 60 s of backoff
C22_Witness == proc[1].pc = "vision_ret" /\ ~proc[1].page_ok /\ Len(proc[1].page_errs) = 3 /\ RateLimitedSleeps(proc[1]) = 2 /\ TotalBackoff(proc[1]) = 600

\* C23: the attempt counter stays within 0..2 and, at every service call, equals the
\* number of failures of the current page alone; the backoffs of a page after failures
\* without rate-limit signal are 5 s then 10 s whatever earlier pages did; every
\* appended page took 1 to 3 calls and a run over N pages made between N and 3N calls.
C23_RetryStatePerPage == \A p \in Procs : LET r == proc[p] IN /\ r.attempt \in 0..2 /\ (r.pc = "try" => (r.attempt = Len(r.page_errs) /\ Len(BackoffDelays(r)) = r.attempt)) /\ (\A k \in 1..Len(BackoffDelays(r)) : ~HasRateLimitSignal(r.page_errs[k]) => BackoffDelays(r)[k] = 50 * k) /\ (\A j \in 1..Len(r.results) : r.results[j].calls \in 1..3) /\ (RanToEnd(p) => (r.calls >= doc.pages /\ r.calls <= 3 * doc.pages /\ r.calls = SumSeq([j \in 1..Len(r.results) |-> r.results[j].calls])))

\* page 1 exhausted its 3 attempts, and page 2 is at its third attempt after sleeping 5 s
\* and 10 s
C23_Witness == \E p \in Procs : proc[p].pc = "try" /\ proc[p].page_num = 2 /\ proc[p].attempt = 2 /\ ~proc[p].results[1].ok /\ proc[p].results[1].calls = 3 /\ BackoffDelays(proc[p]) = <<50, 100>>

=============================================================================
